---- MODULE Spec2Model ----
(***************************************************************************)
(* Model of the B-roll pipeline of brollbot22: the feasibility assessor,   *)
(* the prompt synthesizer, the beat parser with its memoization cache and  *)
(* the input model (src/agents.py, src/models.py, src/main.py,             *)
(* src/config.py).                                                         *)
(*                                                                         *)
(* Text is a sequence of one-character strings.  Confidence values are     *)
(* counted in hundredths (0.4 is 40, 0.7 is 70, 1.0 is 100).               *)
(***************************************************************************)
EXTENDS Integers, Sequences, FiniteSets, TLC

VARIABLES
    feasPc, feasReply, feasOut,
    genPc, genArgs, beats_data, duration, aspect_ratio, genIdx, prompts, genTrace,
    feasCalls,
    parsePc, parseReply, parseOut,
    cache, now, invocations, callLog,
    thr, locks, freshLog,
    inPc, caller, script_input, tone, format_type, ad_input, uiMessage,
    parseInvoked, genInvoked,
    spPc, spTone, spFormat, spText,
    exPc, exPrompts, csv_data, json_data

feasVars == <<feasPc, feasReply, feasOut>>
genVars == <<genPc, genArgs, beats_data, duration, aspect_ratio, genIdx, prompts, genTrace,
            feasCalls>>
parseVars == <<parsePc, parseReply, parseOut>>
cacheVars == <<cache, now, invocations, callLog>>
inputVars == <<inPc, caller, script_input, tone, format_type, ad_input, uiMessage,
               parseInvoked, genInvoked>>
concVars == <<thr, locks, freshLog>>
promptVars == <<spPc, spTone, spFormat, spText>>
exportVars == <<exPc, exPrompts, csv_data, json_data>>
vars == <<feasVars, genVars, parseVars, cacheVars, concVars, inputVars, promptVars, exportVars>>

\* Each component leaves the state of the others alone.
OnlyFeas == UNCHANGED <<genVars, parseVars, cacheVars, inputVars, concVars, promptVars, exportVars>>
OnlyGen == UNCHANGED <<feasVars, parseVars, cacheVars, inputVars, concVars, promptVars, exportVars>>
OnlyParse == UNCHANGED <<feasVars, genVars, cacheVars, inputVars, concVars, promptVars, exportVars>>
OnlyCache == UNCHANGED <<feasVars, genVars, parseVars, inputVars, concVars, promptVars, exportVars>>
OnlyConc == UNCHANGED <<feasVars, genVars, parseVars, inputVars, promptVars, exportVars>>
OnlyInput == UNCHANGED <<feasVars, genVars, parseVars, cacheVars, concVars, promptVars, exportVars>>
OnlyPrompt == UNCHANGED <<feasVars, genVars, parseVars, cacheVars, concVars, inputVars, exportVars>>
OnlyExport == UNCHANGED <<feasVars, genVars, parseVars, cacheVars, concVars, inputVars, promptVars>>

-----------------------------------------------------------------------------
(* Text helpers *)

Rep(c, n) == [i \in 1..n |-> c]

Contains(s, c) == \E i \in 1..Len(s) : s[i] = c

-----------------------------------------------------------------------------
(* JSON / Python values: a tag t, a number n (hundredths for floats, 0/1   *)
(* for booleans) and a text s.                                             *)

J(t, n, s) == [t |-> t, n |-> n, s |-> s]

Absent == J("absent", 0, <<>>)
JNull == J("null", 0, <<>>)
JTrue == J("bool", 1, <<>>)
JFalse == J("bool", 0, <<>>)
JNum(n) == J("num", n, <<>>)
JStr(s) == J("str", 0, s)
JArr == J("arr", 0, <<>>)
JObj == J("obj", 0, <<>>)

\* Python truthiness of a value (used by "if is_feasible and ...").
Truthy(v) ==
    CASE v.t = "bool" -> v.n = 1
      [] v.t = "num" -> v.n # 0
      [] v.t = "str" -> v.s # <<>>
      [] OTHER -> FALSE

-----------------------------------------------------------------------------
(* The generative service: chat.completions.create either raises (error,   *)
(* timeout) or returns a message whose content is missing (None), text     *)
(* that is not JSON (the empty body included), or JSON text.               *)

ServiceReply(kind, val, feasible, confidence) ==
    [kind |-> kind, val |-> val, feasible |-> feasible, confidence |-> confidence]

\* json.loads(content): the parsed value, or the exception it raises.
JsonLoads(r) ==
    CASE r.kind = "none" -> [exc |-> "TypeError", val |-> JNull]
      [] r.kind \in {"empty", "text"} -> [exc |-> "JSONDecodeError", val |-> JNull]
      [] OTHER -> [exc |-> "", val |-> r.val]

-----------------------------------------------------------------------------
(* BrollAgent._assess_generation_feasibility *)

DefaultConfidence == 70

FeasDefault == [raised |-> FALSE, feasible |-> JTrue, confidence |-> JNum(DefaultConfidence)]

\* result.get(key, default) on a parsed JSON object.
DictGet(field, default) == IF field.t = "absent" THEN default ELSE field

AssessGenerationFeasibility(r) ==
    IF r.kind \in {"raise", "timeout"} THEN FeasDefault
    ELSE IF JsonLoads(r).exc # "" THEN FeasDefault
    ELSE IF JsonLoads(r).val.t # "obj" THEN FeasDefault
    ELSE [raised |-> FALSE,
          feasible |-> DictGet(r.feasible, JFalse),
          confidence |-> DictGet(r.confidence, JNum(0))]

\* Replies the feasibility request can get.
FeasibleFields == {Absent, JTrue, JFalse, JNull, JStr(<<"y", "e", "s">>), JStr(<<>>), JNum(0), JNum(100)}

ConfidenceFields ==
    {Absent, JNull, JTrue, JStr(<<"0", ".", "9">>)}
        \cup {JNum(n) : n \in {-10, 0, 40, 41, 70, 100, 150}}

FeasReplies ==
    {ServiceReply(k, JNull, Absent, Absent) : k \in {"raise", "timeout", "none", "empty", "text"}}
        \cup {ServiceReply("json", v, Absent, Absent) :
                v \in {JNull, JTrue, JNum(70), JStr(<<"o", "k">>), JArr}}
        \cup {ServiceReply("json", JObj, f, c) : f \in FeasibleFields, c \in ConfidenceFields}

NoFeasOut == [raised |-> FALSE, feasible |-> Absent, confidence |-> Absent]

FeasIdle ==
    /\ feasPc = "idle"
    /\ feasReply = ServiceReply("raise", JNull, Absent, Absent)
    /\ feasOut = NoFeasOut

FeasInit ==
    /\ feasPc = "call"
    /\ feasReply \in FeasReplies
    /\ feasOut = NoFeasOut

Assess ==
    /\ feasPc = "call"
    /\ feasOut' = AssessGenerationFeasibility(feasReply)
    /\ feasPc' = "returned"
    /\ UNCHANGED feasReply
    /\ OnlyFeas

-----------------------------------------------------------------------------
(* models.py: SceneBeat and BrollPrompt *)

MinSceneDescription == 10
MinDuration == 1
MaxDuration == 30
MinConfidence == 0
MaxConfidence == 100

\* A loosely-typed element handed to SceneBeat(**beat_data): a dict whose
\* four keys are absent, null or text, or something that is not a dict.
BeatData(isdict, ts, desc, emo, exc) ==
    [isdict |-> isdict, timestamp |-> ts, scene_description |-> desc,
     emotion |-> emo, script_excerpt |-> exc]

\* validate_timestamp: "if not v or ':' not in v: raise".
ValidateTimestamp(v) == v # <<>> /\ Contains(v, ":")

\* SceneBeat(**beat_data) succeeds.
SceneBeatValid(e) ==
    /\ e.isdict
    /\ e.timestamp.t = "str" /\ ValidateTimestamp(e.timestamp.s)
    /\ e.scene_description.t = "str" /\ Len(e.scene_description.s) >= MinSceneDescription
    /\ e.emotion.t = "str"
    /\ e.script_excerpt.t = "str"

\* The SceneBeat built from a valid element.
SceneBeat(e) ==
    [timestamp |-> e.timestamp.s, scene_description |-> e.scene_description.s,
     emotion |-> e.emotion.s, script_excerpt |-> e.script_excerpt.s]

\* beat.dict(): back to a plain dict.
BeatDict(b) ==
    BeatData(TRUE, JStr(b.timestamp), JStr(b.scene_description),
             JStr(b.emotion), JStr(b.script_excerpt))

\* An optional argument: None or a value.
None == [some |-> FALSE, v |-> 0]
Some(x) == [some |-> TRUE, v |-> x]
NoneStr == [some |-> FALSE, v |-> ""]

\* The float a confidence value is stored as (a bool is coerced to 0.0/1.0).
AsFloat(v) == IF v.t = "bool" THEN v.n * 100 ELSE v.n

\* BrollPrompt(...): duration ge=1 le=30.
DurationValid(d) == d >= MinDuration /\ d <= MaxDuration

\* BrollPrompt(...): confidence_score ge=0.0 le=1.0.
ConfidenceValid(c) ==
    c.t \in {"num", "bool"} /\ AsFloat(c) >= MinConfidence /\ AsFloat(c) <= MaxConfidence

\* Variant: the upper bounds (le=30, le=1.0) are not enforced.
BrollPromptValidNoUpper(d, c) ==
    d >= MinDuration /\ c.t \in {"num", "bool"} /\ AsFloat(c) >= MinConfidence

BrollPromptValid(d, c) == DurationValid(d) /\ ConfidenceValid(c)

BrollPrompt(prompt, d, ar, insert_after, search_instruction, c) ==
    [prompt |-> prompt, duration |-> d, aspect_ratio |-> ar,
     insert_after |-> insert_after, search_instruction |-> search_instruction,
     confidence_score |-> AsFloat(c)]

-----------------------------------------------------------------------------
(* BrollAgent.generate_prompts *)

DEFAULT_DURATION == 3
DEFAULT_ASPECT_RATIO == "9:16"
Threshold == 40

T_frustrated == <<"f", "r", "u", "s", "t", "r", "a", "t", "e", "d">>
T_satisfied == <<"s", "a", "t", "i", "s", "f", "i", "e", "d">>
T_happy == <<"h", "a", "p", "p", "y">>
T_excited == <<"e", "x", "c", "i", "t", "e", "d">>
T_amazed == <<"a", "m", "a", "z", "e", "d">>
T_intrigued == <<"i", "n", "t", "r", "i", "g", "u", "e", "d">>
T_problem_hook == <<"p", "r", "o", "b", "l", "e", "m", "_", "h", "o", "o", "k">>
T_solution == <<"s", "o", "l", "u", "t", "i", "o", "n">>
T_social_proof == <<"s", "o", "c", "i", "a", "l", "_", "p", "r", "o", "o", "f">>
T_urgency == <<"u", "r", "g", "e", "n", "c", "y">>
T_transformation == <<"t", "r", "a", "n", "s", "f", "o", "r", "m", "a", "t", "i", "o", "n">>
T_curiosity == <<"c", "u", "r", "i", "o", "s", "i", "t", "y">>

\* emotion_map.get(beat.emotion, beat.emotion)
NaturalEmotion(emotion) ==
    CASE emotion = T_problem_hook -> T_frustrated
      [] emotion = T_solution -> T_satisfied
      [] emotion = T_social_proof -> T_happy
      [] emotion = T_urgency -> T_excited
      [] emotion = T_transformation -> T_amazed
      [] emotion = T_curiosity -> T_intrigued
      [] OTHER -> emotion

\* Variant: the emotion is used as given, without the table.
FormattedPromptRawEmotion(b) ==
    b.scene_description \o <<",", " ">> \o b.emotion
        \o <<",", " ", "c", "i", "n", "e", "m", "a", "t", "i", "c">>

\* f"{beat.scene_description}, {natural_emotion}, cinematic"
FormattedPrompt(b) ==
    b.scene_description \o <<",", " ">> \o NaturalEmotion(b.emotion)
        \o <<",", " ", "c", "i", "n", "e", "m", "a", "t", "i", "c">>

\* f"Search for: {beat.scene_description} showing {natural_emotion} emotion"
SearchInstruction(b) ==
    <<"S", "e", "a", "r", "c", "h", " ", "f", "o", "r", ":", " ">>
        \o b.scene_description
        \o <<" ", "s", "h", "o", "w", "i", "n", "g", " ">>
        \o NaturalEmotion(b.emotion)
        \o <<" ", "e", "m", "o", "t", "i", "o", "n">>

\* "confidence > 0.4" raises TypeError unless the value is a number.
CompareRaises(c) == c.t \notin {"num", "bool"}

\* "is_feasible and confidence > 0.4" (evaluated left to right).
PassesGate(a) == Truthy(a.feasible) /\ ~CompareRaises(a.confidence) /\ AsFloat(a.confidence) > Threshold

\* Variant: the new prompt is put in front of the list.
AppendPromptFront(ps, p) == <<p>> \o ps

\* prompts.append(prompt_obj)
AppendPrompt(ps, p) == Append(ps, p)

\* One pass of the loop body for a valid beat b assessed as a: the new prompts.
ProcessBeat(ps, b, a, d, ar) ==
    IF PassesGate(a) /\ BrollPromptValid(d, a.confidence)
    THEN AppendPrompt(ps, BrollPrompt(FormattedPrompt(b), d, ar, b.script_excerpt,
                                      SearchInstruction(b), a.confidence))
    ELSE ps

\* Bound: the number of beats handed to generate_prompts.
MaxBeats == 2

TS_0 == <<"0", "0", ":", "0", "0">>
TS_5 == <<"0", "0", ":", "0", "5">>
TS_NoColon == <<"0", "0", "0", "5">>
Desc10 == <<"H", "a", "p", "p", "y", " ", "u", "s", "e", "r">>
Desc12 == <<"P", "h", "o", "n", "e", " ", "c", "l", "o", "s", "e", "d">>
Desc9 == <<"S", "a", "d", " ", "p", "h", "o", "n", "e">>
Exc_Tired == <<"T", "i", "r", "e", "d", "?">>
Exc_Try == <<"T", "r", "y">>

BeatA == BeatData(TRUE, JStr(TS_0), JStr(Desc10), JStr(T_urgency), JStr(Exc_Tired))
BeatB == BeatData(TRUE, JStr(TS_5), JStr(Desc12), JStr(T_happy), JStr(Exc_Try))
BeatShortDesc == BeatData(TRUE, JStr(TS_0), JStr(Desc9), JStr(T_happy), JStr(Exc_Try))
BeatNoColon == BeatData(TRUE, JStr(TS_NoColon), JStr(Desc12), JStr(T_happy), JStr(Exc_Try))

GenBeats == {BeatA, BeatB, BeatShortDesc, BeatNoColon}

\* (duration, aspect_ratio) arguments of a call.
GenArgs ==
    {<<None, NoneStr>>, <<Some(1), Some("16:9")>>, <<Some(30), NoneStr>>,
     <<Some(31), Some("1:1")>>, <<Some(0), Some("9:16")>>}

\* Replies the feasibility request gets inside generate_prompts.
GenFeasReplies ==
    {ServiceReply("raise", JNull, Absent, Absent),
     ServiceReply("text", JNull, Absent, Absent),
     ServiceReply("json", JObj, Absent, Absent),
     ServiceReply("json", JObj, JFalse, JNum(90)),
     ServiceReply("json", JObj, JTrue, JNum(40)),
     ServiceReply("json", JObj, JTrue, JNum(41)),
     ServiceReply("json", JObj, JTrue, JNum(100)),
     ServiceReply("json", JObj, JTrue, JNum(150)),
     ServiceReply("json", JObj, JTrue, JNull),
     ServiceReply("json", JObj, JStr(<<"n", "o">>), JNum(90))}

SeqsUpTo(S, n) == UNION {[1..k -> S] : k \in 0..n}

GenIdle ==
    /\ genPc = "idle"
    /\ beats_data = <<>>
    /\ duration = None
    /\ aspect_ratio = NoneStr
    /\ genIdx = 0
    /\ prompts = <<>>
    /\ genTrace = <<>>
    /\ genArgs = <<None, NoneStr>>
    /\ feasCalls = <<>>

GenInit ==
    /\ genPc = "call"
    /\ beats_data \in SeqsUpTo(GenBeats, MaxBeats)
    /\ genArgs \in GenArgs
    /\ duration = genArgs[1]
    /\ aspect_ratio = genArgs[2]
    /\ genIdx = 0
    /\ prompts = <<>>
    /\ genTrace = <<>>
    /\ feasCalls = <<>>

\* Entry of generate_prompts: the defaults of the optional arguments.
GenCall ==
    /\ genPc = "call"
    /\ duration' = IF duration.some THEN duration ELSE Some(DEFAULT_DURATION)
    /\ aspect_ratio' = IF aspect_ratio.some THEN aspect_ratio ELSE Some(DEFAULT_ASPECT_RATIO)
    /\ prompts' = <<>>
    /\ genPc' = "loop"
    /\ UNCHANGED <<genArgs, beats_data, genIdx, genTrace, feasCalls>>
    /\ OnlyGen

\* What one pass of the loop did: whether the beat re-validated, whether the
\* assessor was called and what it returned, whether a prompt was appended.
TraceEntry(valid, a, emitted) ==
    [valid |-> valid, called |-> valid, feasible |-> a.feasible,
     confidence |-> a.confidence, emitted |-> emitted]

\* Variant: the assessor is asked a second time for the same beat.
AssessorCallsRetried(calls, i) == calls \o <<i, i>>

\* self._assess_generation_feasibility(beat.scene_description): the positions
\* of the beats the assessor has been called for, in call order.
AssessorCalls(calls, i) == Append(calls, i)

\* One pass of "for beat_data in beats_data" on a beat that fails SceneBeat.
GenSkipInvalid ==
    /\ genPc = "loop"
    /\ genIdx < Len(beats_data)
    /\ ~SceneBeatValid(beats_data[genIdx + 1])
    /\ genIdx' = genIdx + 1
    /\ genTrace' = Append(genTrace, TraceEntry(FALSE, NoFeasOut, FALSE))
    /\ UNCHANGED <<genPc, genArgs, beats_data, duration, aspect_ratio, prompts, feasCalls>>
    /\ OnlyGen

\* One pass of the loop on a valid beat: assess, gate, build, append.
GenProcess ==
    /\ genPc = "loop"
    /\ genIdx < Len(beats_data)
    /\ SceneBeatValid(beats_data[genIdx + 1])
    /\ \E r \in GenFeasReplies :
        LET b == SceneBeat(beats_data[genIdx + 1])
            a == AssessGenerationFeasibility(r)
            ps == ProcessBeat(prompts, b, a, duration.v, aspect_ratio.v)
        IN /\ prompts' = ps
           /\ genTrace' = Append(genTrace, TraceEntry(TRUE, a, ps # prompts))
    /\ feasCalls' = AssessorCalls(feasCalls, genIdx + 1)
    /\ genIdx' = genIdx + 1
    /\ UNCHANGED <<genPc, genArgs, beats_data, duration, aspect_ratio>>
    /\ OnlyGen

\* "return prompts"
GenReturn ==
    /\ genPc = "loop"
    /\ genIdx = Len(beats_data)
    /\ genPc' = "done"
    /\ UNCHANGED <<genArgs, beats_data, duration, aspect_ratio, genIdx, prompts, genTrace,
                   feasCalls>>
    /\ OnlyGen

-----------------------------------------------------------------------------
(* BrollAgent.parse_script: the body under the cache decorator *)

\* Bound: the number of elements of a reply array.
MaxElems == 2

\* A reply to the decomposition request; elems are the elements of a JSON
\* array, keys the number of keys of a JSON object.
ParseReply(kind, val, elems) == [kind |-> kind, val |-> val, elems |-> elems]

\* What a call hands back: None or the validated beats, the st.error message
\* it showed ("" for none) with the underlying error, and the number of
\* "Skipping invalid beat" warnings.
ParseOut(isNone, beats, msg, detail, warnings) ==
    [isNone |-> isNone, beats |-> beats, msg |-> msg, detail |-> detail,
     warnings |-> warnings]

MsgParseFailure == "AI response was not in the expected format"
MsgServiceUnavailable == "Service temporarily unavailable"

RECURSIVE ValidatedBeatsStopAtInvalid(_)
\* Variant: the first invalid element ends the loop.
ValidatedBeatsStopAtInvalid(elems) ==
    IF elems = <<>> THEN <<>>
    ELSE IF SceneBeatValid(Head(elems))
         THEN <<SceneBeat(Head(elems))>> \o ValidatedBeatsStopAtInvalid(Tail(elems))
         ELSE <<>>

RECURSIVE ValidatedBeats(_)
\* "for beat_data in beats_data: try: validated_beats.append(SceneBeat(**beat_data).dict())"
ValidatedBeats(elems) ==
    IF elems = <<>> THEN <<>>
    ELSE IF SceneBeatValid(Head(elems))
         THEN <<SceneBeat(Head(elems))>> \o ValidatedBeats(Tail(elems))
         ELSE ValidatedBeats(Tail(elems))

\* The items a for loop over the parsed value visits: the elements of an
\* array, the keys of an object, the characters of a string.  None of the
\* latter two is a dict.
NotADict == BeatData(FALSE, Absent, Absent, Absent, Absent)

Iterable(v) == v.t \in {"arr", "obj", "str"}

Items(r) ==
    CASE r.val.t = "arr" -> r.elems
      [] r.val.t = "obj" -> [i \in 1..r.val.n |-> NotADict]
      [] r.val.t = "str" -> [i \in 1..Len(r.val.s) |-> NotADict]
      [] OTHER -> <<>>

ParseScriptBody(r) ==
    IF r.kind = "raise" THEN ParseOut(TRUE, <<>>, MsgServiceUnavailable, "APIError", 0)
    ELSE IF r.kind = "timeout" THEN ParseOut(TRUE, <<>>, MsgServiceUnavailable, "APITimeoutError", 0)
    ELSE IF JsonLoads(r).exc = "JSONDecodeError" THEN ParseOut(TRUE, <<>>, MsgParseFailure, "", 0)
    ELSE IF JsonLoads(r).exc # "" THEN ParseOut(TRUE, <<>>, MsgServiceUnavailable, JsonLoads(r).exc, 0)
    ELSE IF ~Iterable(JsonLoads(r).val) THEN ParseOut(TRUE, <<>>, MsgServiceUnavailable, "TypeError", 0)
    ELSE LET vb == ValidatedBeats(Items(r))
         IN ParseOut(FALSE, vb, "", "", Len(Items(r)) - Len(vb))

BeatEmptyExcerpt == BeatData(TRUE, JStr(TS_5), JStr(Desc10), JStr(T_happy), JStr(<<>>))
BeatMissingEmotion == BeatData(TRUE, JStr(TS_5), JStr(Desc12), Absent, JStr(Exc_Try))
BeatNullDesc == BeatData(TRUE, JStr(TS_5), JNull, JStr(T_happy), JStr(Exc_Try))
BeatEmptyTimestamp == BeatData(TRUE, JStr(<<>>), JStr(Desc12), JStr(T_happy), JStr(Exc_Try))

ParseElems ==
    {BeatA, BeatB, BeatShortDesc, BeatNoColon, BeatEmptyExcerpt, BeatMissingEmotion,
     BeatNullDesc, BeatEmptyTimestamp, NotADict}

ParseReplies ==
    {ParseReply(k, JNull, <<>>) : k \in {"raise", "timeout", "none", "empty", "text"}}
        \cup {ParseReply("json", v, <<>>) :
                v \in {JNull, JTrue, JNum(500), JStr(<<"n", "o">>), JStr(<<>>),
                       J("obj", 0, <<>>), J("obj", 2, <<>>)}}
        \cup {ParseReply("json", JArr, es) : es \in SeqsUpTo(ParseElems, MaxElems)}

NoParseOut == ParseOut(TRUE, <<>>, "", "", 0)

ParseIdle ==
    /\ parsePc = "idle"
    /\ parseReply = ParseReply("raise", JNull, <<>>)
    /\ parseOut = NoParseOut

ParseInit ==
    /\ parsePc = "call"
    /\ parseReply \in ParseReplies
    /\ parseOut = NoParseOut

\* One uncached run of parse_script against the reply.
ParseScript ==
    /\ parsePc = "call"
    /\ parseOut' = ParseScriptBody(parseReply)
    /\ parsePc' = "returned"
    /\ UNCHANGED parseReply
    /\ OnlyParse

-----------------------------------------------------------------------------
(* @st.cache_data(ttl=config.CACHE_TTL) around parse_script: a process-wide  *)
(* memo keyed by the arguments (script, tone, format_type); _self is left    *)
(* out of the key.  Whatever the body returns is stored, None included, with *)
(* the messages it showed, which a hit shows again.                          *)

CACHE_TTL == 3600

\* Bounds: calls per behaviour, the clock and its step.
MaxCalls == 3
MaxTime == 7200
TickStep == 1800

Script1 == <<"T", "i", "r", "e", "d", " ", "o", "f", " ", "c", "a", "l", "l", "s", "?">>

CacheKey(script, t, f) == <<script, t, f>>

CacheKeys == {CacheKey(Script1, "inspiring", "UGC"), CacheKey(Script1, "urgent", "UGC")}

EmptyEntry == [present |-> FALSE, time |-> 0, value |-> NoParseOut]

\* Variant: an entry never expires.
CacheHitNoExpiry(c, key, t) == c[key].present

\* The entry for the key is there and not older than the time-to-live.
CacheHit(c, key, t) == c[key].present /\ t - c[key].time < CACHE_TTL

\* The entry written after a miss.
CacheStore(c, key, t, out) == [c EXCEPT ![key] = [present |-> TRUE, time |-> t, value |-> out]]

\* Replies the decomposition request gets in the cached runs.
CacheReplies ==
    {ParseReply("raise", JNull, <<>>),
     ParseReply("text", JNull, <<>>),
     ParseReply("json", JArr, <<BeatA>>),
     ParseReply("json", JArr, <<BeatB, BeatShortDesc, BeatA>>)}

CallRecord(key, t, fresh, out) == [key |-> key, time |-> t, fresh |-> fresh, out |-> out]

CacheIdle ==
    /\ cache = [k \in CacheKeys |-> EmptyEntry]
    /\ now = 0
    /\ invocations = [k \in CacheKeys |-> 0]
    /\ callLog = <<>>

CacheInit == CacheIdle

\* parse_script(script, tone, format_type) answered from the memo.
CallCached(key) ==
    /\ Len(callLog) < MaxCalls
    /\ CacheHit(cache, key, now)
    /\ callLog' = Append(callLog, CallRecord(key, now, FALSE, cache[key].value))
    /\ UNCHANGED <<cache, now, invocations>>
    /\ OnlyCache

\* parse_script(script, tone, format_type) on a miss: the body runs, the
\* generative service is invoked, and the outcome is stored.
CallFresh(key) ==
    /\ Len(callLog) < MaxCalls
    /\ ~CacheHit(cache, key, now)
    /\ \E r \in CacheReplies :
        LET out == ParseScriptBody(r)
        IN /\ cache' = CacheStore(cache, key, now, out)
           /\ callLog' = Append(callLog, CallRecord(key, now, TRUE, out))
    /\ invocations' = [invocations EXCEPT ![key] = @ + 1]
    /\ UNCHANGED now
    /\ OnlyCache

Tick ==
    /\ now + TickStep <= MaxTime
    /\ now' = now + TickStep
    /\ UNCHANGED <<cache, invocations, callLog>>
    /\ OnlyCache

-----------------------------------------------------------------------------
(* st.cache_data under concurrent sessions: after a miss a caller takes the  *)
(* lock of the key, reads the memo again, and only then runs the body and    *)
(* stores the outcome; the lock is released when the call leaves.            *)

\* Bound: the number of concurrent callers.
NumThreads == 2

Threads == 1..NumThreads

ThreadState(pc, key, out, fresh, waited, entry) ==
    [pc |-> pc, key |-> key, out |-> out, fresh |-> fresh, waited |-> waited,
     entry |-> entry]

ThreadIdle ==
    ThreadState("idle", CacheKey(Script1, "inspiring", "UGC"), NoParseOut, FALSE, FALSE, 0)

\* Replies the decomposition request gets in the concurrent runs.
ConcReplies ==
    {ParseReply("raise", JNull, <<>>),
     ParseReply("json", JArr, <<BeatA>>),
     ParseReply("json", JArr, <<BeatB, BeatShortDesc>>)}

\* Variant: the lock does not exclude a second holder.
LockFreeAlways(l, key) == TRUE

\* Nobody holds the lock of the key.
LockFree(l, key) == l[key] = 0

ConcIdle ==
    /\ thr = [t \in Threads |-> ThreadIdle]
    /\ locks = [k \in CacheKeys |-> 0]
    /\ freshLog = <<>>

ConcInit == ConcIdle

\* A session calls parse_script(script, tone, format_type): first read of
\* the memo.
TCall(t, key) ==
    /\ thr[t].pc = "idle"
    /\ thr' = [thr EXCEPT ![t] =
                IF CacheHit(cache, key, now)
                THEN ThreadState("done", key, cache[key].value, FALSE, FALSE, cache[key].time)
                ELSE ThreadState("waitlock", key, NoParseOut, FALSE, FALSE, 0)]
    /\ UNCHANGED <<cache, now, invocations, callLog, locks, freshLog>>
    /\ OnlyConc

\* The caller gets the lock of its key.
TAcquire(t) ==
    /\ thr[t].pc = "waitlock"
    /\ LockFree(locks, thr[t].key)
    /\ locks' = [locks EXCEPT ![thr[t].key] = t]
    /\ thr' = [thr EXCEPT ![t].pc = "locked", ![t].waited = TRUE]
    /\ UNCHANGED <<cache, now, invocations, callLog, freshLog>>
    /\ OnlyConc

\* Second read of the memo, under the lock: a hit returns and releases.
TRecheck(t) ==
    /\ thr[t].pc = "locked"
    /\ LET key == thr[t].key
       IN IF CacheHit(cache, key, now)
          THEN /\ thr' = [thr EXCEPT ![t] =
                        ThreadState("done", key, cache[key].value, FALSE, TRUE, cache[key].time)]
               /\ locks' = [locks EXCEPT ![key] = 0]
          ELSE /\ thr' = [thr EXCEPT ![t].pc = "compute"]
               /\ UNCHANGED locks
    /\ UNCHANGED <<cache, now, invocations, callLog, freshLog>>
    /\ OnlyConc

\* The body runs: the generative service is invoked.
TCompute(t) ==
    /\ thr[t].pc = "compute"
    /\ \E r \in ConcReplies :
        thr' = [thr EXCEPT ![t].pc = "store", ![t].out = ParseScriptBody(r), ![t].fresh = TRUE]
    /\ invocations' = [invocations EXCEPT ![thr[t].key] = @ + 1]
    /\ freshLog' = Append(freshLog, [key |-> thr[t].key, time |-> now, thread |-> t])
    /\ UNCHANGED <<cache, now, callLog, locks>>
    /\ OnlyConc

\* The outcome is stored and the lock released.
TStore(t) ==
    /\ thr[t].pc = "store"
    /\ cache' = CacheStore(cache, thr[t].key, now, thr[t].out)
    /\ locks' = [locks EXCEPT ![thr[t].key] = 0]
    /\ thr' = [thr EXCEPT ![t].pc = "done", ![t].entry = now]
    /\ UNCHANGED <<now, invocations, callLog, freshLog>>
    /\ OnlyConc

\* Time passes while sessions run.
ConcTick ==
    /\ now + TickStep <= MaxTime
    /\ now' = now + TickStep
    /\ UNCHANGED <<cache, invocations, callLog, concVars>>
    /\ OnlyConc

-----------------------------------------------------------------------------
(* models.py: AdScriptInput; main.py: validate_input and the generate       *)
(* button of main()                                                          *)

MIN_SCRIPT_LENGTH == 10
MAX_SCRIPT_LENGTH == 5000
FieldMinLength == 10
FieldMaxLength == 5000

IsSpace(c) == c \in {" ", "\t", "\n"}

AllSpace(s) == \A i \in 1..Len(s) : IsSpace(s[i])

\* str.strip(): leading and trailing whitespace removed.
Strip(s) ==
    IF AllSpace(s) THEN <<>>
    ELSE LET first == CHOOSE i \in 1..Len(s) :
                        ~IsSpace(s[i]) /\ \A j \in 1..(i - 1) : IsSpace(s[j])
             last == CHOOSE i \in 1..Len(s) :
                        ~IsSpace(s[i]) /\ \A j \in (i + 1)..Len(s) : IsSpace(s[j])
         IN SubSeq(s, first, last)

LiteralTones ==
    {"inspiring", "urgent", "calm", "funny", "serious", "emotional", "uplifting", "mysterious"}
LiteralFormats == {"UGC", "talking_head", "testimonial"}

\* Field(..., min_length=10, max_length=5000): checked on the value as given.
ScriptFieldValid(script) == Len(script) >= FieldMinLength /\ Len(script) <= FieldMaxLength

\* @validator('script'): runs after the field constraints; raises on an empty
\* or whitespace-only value, otherwise the stripped value is stored.
ValidateScriptRaises(v) == v = <<>> \/ Strip(v) = <<>>
ValidateScript(v) == Strip(v)

\* AdScriptInput(script=..., tone=..., format=...) succeeds.
AdScriptInputValid(script, t, f) ==
    /\ ScriptFieldValid(script)
    /\ ~ValidateScriptRaises(script)
    /\ t \in LiteralTones
    /\ f \in LiteralFormats

NoAdInput == [ok |-> FALSE, script |-> <<>>, tone |-> "", format |-> ""]

AdScriptInput(script, t, f) ==
    IF AdScriptInputValid(script, t, f)
    THEN [ok |-> TRUE, script |-> ValidateScript(script), tone |-> t, format |-> f]
    ELSE NoAdInput

\* validate_input(script): (is_valid, error_message)
ValidateInput(script) ==
    IF script = <<>> \/ Strip(script) = <<>> THEN <<FALSE, "Please enter a script.">>
    ELSE IF Len(script) < MIN_SCRIPT_LENGTH THEN <<FALSE, "Script must be at least">>
    ELSE IF Len(script) > MAX_SCRIPT_LENGTH THEN <<FALSE, "Script must be less than">>
    ELSE <<TRUE, "">>

\* The options of the two select boxes of the form.
FormTones ==
    {"hook", "problem", "solution", "social_proof", "urgency", "transformation",
     "curiosity", "authority"}
FormFormats ==
    {"ugc_style", "testimonial", "demo_style", "influencer_style", "news_style", "comparison"}

\* Scripts: lead blanks, then body characters, then trail blanks.
ScriptOf(lead, body, trail) == Rep(" ", lead) \o Rep("a", body) \o Rep(" ", trail)

ScriptShapes ==
    {<<0, 0, 0>>, <<12, 0, 0>>, <<0, 9, 0>>, <<0, 10, 0>>, <<0, 3, 7>>, <<1, 9, 0>>,
     <<0, 4999, 0>>, <<0, 5000, 0>>, <<0, 5001, 0>>, <<1, 4999, 1>>}

Scripts == {ScriptOf(sh[1], sh[2], sh[3]) : sh \in ScriptShapes}

\* Arguments of a construction made by code other than the form.
DirectTones == {"inspiring", "mysterious", "hook"}
DirectFormats == {"UGC", "ugc_style"}

InputIdle ==
    /\ inPc = "idle"
    /\ caller = "none"
    /\ script_input = <<>>
    /\ tone = ""
    /\ format_type = ""
    /\ ad_input = NoAdInput
    /\ uiMessage = ""
    /\ parseInvoked = FALSE
    /\ genInvoked = FALSE

InputInit ==
    /\ inPc = "start"
    /\ script_input \in Scripts
    /\ \/ caller = "main" /\ tone \in FormTones /\ format_type \in FormFormats
       \/ caller = "direct" /\ tone \in DirectTones /\ format_type \in DirectFormats
    /\ ad_input = NoAdInput
    /\ uiMessage = ""
    /\ parseInvoked = FALSE
    /\ genInvoked = FALSE

\* AdScriptInput(...) constructed outside the form.
Construct ==
    /\ inPc = "start"
    /\ caller = "direct"
    /\ ad_input' = AdScriptInput(script_input, tone, format_type)
    /\ inPc' = IF AdScriptInputValid(script_input, tone, format_type)
               THEN "constructed" ELSE "rejected"
    /\ UNCHANGED <<caller, script_input, tone, format_type, uiMessage, parseInvoked, genInvoked>>
    /\ OnlyInput

\* What parse_script hands back to main(): None with the error it showed,
\* an empty list, or beats.
ParseOutcomes == {MsgParseFailure, MsgServiceUnavailable, "empty", "beats"}

\* What generate_prompts hands back to main(): an empty list or prompts.
GenOutcomes == {"empty", "prompts"}

MsgInputValidationFailed == "Input validation failed"
MsgNoScenes == "No suitable scenes found. Try adjusting your psychology trigger or format."
MsgNoPrompts ==
    "No high-converting B-roll prompts could be generated. Consider simplifying your script for better AI video generation."

\* main(): the generate button.
Generate ==
    /\ inPc = "start"
    /\ caller = "main"
    /\ \E pr \in ParseOutcomes, gp \in GenOutcomes :
        LET v == ValidateInput(script_input)
            built == AdScriptInputValid(script_input, tone, format_type)
            ran == v[1] /\ built
        IN /\ uiMessage' = IF ~v[1] THEN v[2]
                           ELSE IF ~built THEN MsgInputValidationFailed
                           ELSE IF pr \in {MsgParseFailure, MsgServiceUnavailable} THEN pr
                           ELSE IF pr = "empty" THEN MsgNoScenes
                           ELSE IF gp = "empty" THEN MsgNoPrompts
                           ELSE ""
           /\ ad_input' = IF v[1] THEN AdScriptInput(script_input, tone, format_type)
                          ELSE NoAdInput
           /\ inPc' = IF ~v[1] THEN "invalid"
                      ELSE IF ~built THEN "rejected"
                      ELSE IF pr \in {MsgParseFailure, MsgServiceUnavailable} THEN "failed"
                      ELSE IF pr = "empty" THEN "no_beats"
                      ELSE IF gp = "empty" THEN "no_prompts"
                      ELSE "results"
           /\ parseInvoked' = ran
           /\ genInvoked' = (ran /\ pr = "beats")
    /\ UNCHANGED <<caller, script_input, tone, format_type>>
    /\ OnlyInput

-----------------------------------------------------------------------------
(* BrollAgent._get_system_prompt.  The text is a sequence of blocks, each a  *)
(* heading with its lines.                                                   *)

Block(label, items) == [label |-> label, items |-> items]

\* base_prompt
BaseFraming ==
    Block("You are a B-roll specialist for high-converting social media ads.",
          <<"Grab attention in first 3 seconds",
            "Support direct response marketing goals",
            "Work well for AI video generation (Runway, Pika, Kling)",
            "Are optimized for mobile viewing">>)

BaseOutputs ==
    Block("For each moment, output:",
          <<"A timestamp (every 3-5 seconds)",
            "A SIMPLE, clear scene description (under 15 words)",
            "The marketing emotion it triggers (frustrated, excited, happy, amazed, etc.)",
            "The script excerpt it supports">>)

BaseSceneTypes ==
    Block("KEY SCENE TYPES:",
          <<"Problem moments (frustration, struggle)", "Solution reveals (product in action)",
            "Transformation (before/after)", "Social proof (happy customers)",
            "Urgency (timers, scarcity)">>)

BaseSimple ==
    Block("KEEP DESCRIPTIONS SIMPLE:",
          <<"GOOD: Person frustrated with phone", "GOOD: Happy customer holding product",
            "GOOD: Before and after comparison",
            "BAD: Close-up of person's disillusioned face as they futilely make cold calls">>)

BaseJsonContract ==
    Block("Respond only in raw JSON format:",
          <<"timestamp", "scene_description", "emotion", "script_excerpt">>)

BasePrompt == <<BaseFraming, BaseOutputs, BaseSceneTypes, BaseSimple, BaseJsonContract>>

ExamplesBlock ==
    Block("EXAMPLES OF GOOD SCENE DESCRIPTIONS:",
          <<"Person frustrated with laptop", "Product reveal close-up",
            "Happy customer testimonial", "Before and after split screen",
            "Countdown timer on phone", "Money being saved", "Problem being solved">>)

\* dr_tone_guidance
DrToneGuidance ==
    {<<"hook", "Create simple attention-grabbing moments">>,
     <<"problem", "Show clear frustration or struggle">>,
     <<"solution", "Display product solving the problem">>,
     <<"social_proof", "Show happy customers or testimonials">>,
     <<"urgency", "Include countdown or scarcity elements">>,
     <<"transformation", "Before and after moments">>,
     <<"curiosity", "Partial reveals or mysterious elements">>}

\* dr_format_guidance
DrFormatGuidance ==
    {<<"UGC", "Authentic, user-generated style footage">>,
     <<"talking_head", "Speaker with engaging gestures">>,
     <<"testimonial", "Real customer reactions and success stories">>}

\* config.TONE_GUIDANCE, imported by agents.py
TONE_GUIDANCE ==
    {<<"hook", "Create pattern interrupts, shocking moments, 'wait what?' visuals that stop scrolling immediately">>,
     <<"problem_agitation", "Show clear pain points, frustrations, struggles that your audience relates to">>,
     <<"solution_reveal", "Display dramatic transformations, product reveals, 'aha moments' that build desire">>,
     <<"social_proof", "Include crowds, testimonials, success stories, authority figures, trust signals">>,
     <<"urgency", "Show countdown timers, limited quantities, people rushing, FOMO triggers, scarcity">>,
     <<"desire", "Feature aspirational lifestyle, success moments, transformations, dream outcomes">>,
     <<"curiosity", "Create knowledge gaps, partial reveals, 'secret' moments, mysterious elements">>,
     <<"authority", "Display credentials, expert endorsements, scientific proof, media mentions">>}

\* table.get(key, "")
TableGet(table, key) ==
    IF \E p \in table : p[1] = key THEN (CHOOSE p \in table : p[1] = key)[2] ELSE ""

\* Variant: the tone is looked up in the table imported from config.
ToneGuideFromConfig(t) == TableGet(TONE_GUIDANCE, t)

\* tone_guide = dr_tone_guidance.get(tone, "")
ToneGuide(t) == TableGet(DrToneGuidance, t)

\* format_guide = dr_format_guidance.get(format_type, "")
FormatGuide(f) == TableGet(DrFormatGuidance, f)

GetSystemPrompt(t, f) ==
    BasePrompt
        \o (IF ToneGuide(t) # "" THEN <<Block("TONE STRATEGY:", <<ToneGuide(t)>>)>> ELSE <<>>)
        \o (IF FormatGuide(f) # "" THEN <<Block("FORMAT STRATEGY:", <<FormatGuide(f)>>)>> ELSE <<>>)
        \o <<ExamplesBlock>>

\* Tones and formats a caller may pass.
PromptTones == FormTones \cup LiteralTones \cup {"", "problem_agitation"}
PromptFormats == FormFormats \cup LiteralFormats \cup {""}

PromptIdle ==
    /\ spPc = "idle"
    /\ spTone = ""
    /\ spFormat = ""
    /\ spText = <<>>

PromptInit ==
    /\ spPc = "call"
    /\ spTone \in PromptTones
    /\ spFormat \in PromptFormats
    /\ spText = <<>>

\* _get_system_prompt(tone, format_type)
BuildSystemPrompt ==
    /\ spPc = "call"
    /\ spText' = GetSystemPrompt(spTone, spFormat)
    /\ spPc' = "returned"
    /\ UNCHANGED <<spTone, spFormat>>
    /\ OnlyPrompt

-----------------------------------------------------------------------------
(* main.create_download_data.  A text is a tuple of characters; the CSV is   *)
(* its header cells and its rows of cells, the JSON its objects of members.  *)

\* Bound: the number of prompts handed to create_download_data.
MaxPrompts == 2

DigitChars == <<"0", "1", "2", "3", "4", "5", "6", "7", "8", "9">>
DigitChar(d) == DigitChars[d + 1]

RECURSIVE Digits(_)
\* str(n) of a non-negative int.
Digits(n) == IF n < 10 THEN <<DigitChar(n)>> ELSE Digits(n \div 10) \o <<DigitChar(n % 10)>>

\* repr of a float given in hundredths: 0.7, 0.41, 1.0.
FloatText(c) ==
    Digits(c \div 100) \o <<".">>
        \o (IF c % 10 = 0 THEN <<DigitChar((c % 100) \div 10)>>
            ELSE <<DigitChar((c % 100) \div 10), DigitChar(c % 10)>>)

\* The characters of an aspect ratio.
AspectChars(ar) ==
    CASE ar = "9:16" -> <<"9", ":", "1", "6">>
      [] ar = "16:9" -> <<"1", "6", ":", "9">>
      [] ar = "1:1" -> <<"1", ":", "1">>
      [] ar = "4:5" -> <<"4", ":", "5">>

RECURSIVE DoubleQuotes(_)
\* csv writer: a quote inside a quoted field is written twice.
DoubleQuotes(s) ==
    IF s = <<>> THEN <<>>
    ELSE (IF Head(s) = "\"" THEN <<"\"", "\"">> ELSE <<Head(s)>>) \o DoubleQuotes(Tail(s))

\* to_csv: a field holding the delimiter, a quote or a line break is quoted.
CsvField(s) ==
    IF Contains(s, ",") \/ Contains(s, "\"") \/ Contains(s, "\n") \/ Contains(s, "\r")
    THEN <<"\"">> \o DoubleQuotes(s) \o <<"\"">>
    ELSE s

RECURSIVE JsonEscape(_)
\* json.dumps: quote, backslash and line break are escaped inside a string.
JsonEscape(s) ==
    IF s = <<>> THEN <<>>
    ELSE (CASE Head(s) = "\"" -> <<"\\", "\"">>
            [] Head(s) = "\\" -> <<"\\", "\\">>
            [] Head(s) = "\n" -> <<"\\", "n">>
            [] OTHER -> <<Head(s)>>) \o JsonEscape(Tail(s))

JsonString(s) == <<"\"">> \o JsonEscape(s) \o <<"\"">>

\* The dict appended for the i-th prompt.
ExportRecord(i, p) ==
    [sequence |-> i, insert_after |-> p.insert_after, prompt |-> p.prompt,
     duration |-> p.duration, aspect_ratio |-> p.aspect_ratio,
     search_instruction |-> p.search_instruction, confidence_score |-> p.confidence_score]

\* Variant: the records are numbered from 0.
ExportDataFromZero(ps) == [i \in 1..Len(ps) |-> ExportRecord(i - 1, ps[i])]

\* for i, prompt in enumerate(prompts, 1): export_data.append({...})
ExportData(ps) == [i \in 1..Len(ps) |-> ExportRecord(i, ps[i])]

\* The keys of a record, in insertion order.
Columns ==
    <<"sequence", "insert_after", "prompt", "duration", "aspect_ratio", "search_instruction",
      "confidence_score">>

CsvRow(r) ==
    <<Digits(r.sequence), CsvField(r.insert_after), CsvField(r.prompt), Digits(r.duration),
      CsvField(AspectChars(r.aspect_ratio)), CsvField(r.search_instruction),
      FloatText(r.confidence_score)>>

\* pd.DataFrame(export_data).to_csv(index=False): no columns for an empty list.
ToCsv(data) ==
    [header |-> IF Len(data) = 0 THEN <<>> ELSE Columns,
     rows |-> [i \in 1..Len(data) |-> CsvRow(data[i])]]

Member(key, value) == [key |-> key, value |-> value]

JsonObject(r) ==
    <<Member("sequence", Digits(r.sequence)),
      Member("insert_after", JsonString(r.insert_after)),
      Member("prompt", JsonString(r.prompt)),
      Member("duration", Digits(r.duration)),
      Member("aspect_ratio", JsonString(AspectChars(r.aspect_ratio))),
      Member("search_instruction", JsonString(r.search_instruction)),
      Member("confidence_score", FloatText(r.confidence_score))>>

\* json.dumps(export_data, indent=2)
JsonDumps(data) == [i \in 1..Len(data) |-> JsonObject(data[i])]

CreateDownloadData(ps) == <<ToCsv(ExportData(ps)), JsonDumps(ExportData(ps))>>

\* Prompts as generate_prompts builds them.
Exc_Quoted == <<"S", "a", "y", " ", "\"", "\"", ",", " ", "n", "o", "w">>
BeatQuoted == BeatData(TRUE, JStr(TS_5), JStr(Desc12), JStr(T_curiosity), JStr(Exc_Quoted))
ExportBeats == {SceneBeat(BeatA), SceneBeat(BeatB), SceneBeat(BeatQuoted)}
ExportSettings == {<<1, "9:16", 41>>, <<30, "16:9", 100>>, <<3, "4:5", 70>>, <<12, "1:1", 85>>}

ExportPrompts ==
    {BrollPrompt(FormattedPrompt(b), st[1], st[2], b.script_excerpt, SearchInstruction(b),
                 JNum(st[3])) : b \in ExportBeats, st \in ExportSettings}

NoCsv == [header |-> <<>>, rows |-> <<>>]

ExportIdle ==
    /\ exPc = "idle"
    /\ exPrompts = <<>>
    /\ csv_data = NoCsv
    /\ json_data = <<>>

ExportInit ==
    /\ exPc = "call"
    /\ exPrompts \in SeqsUpTo(ExportPrompts, MaxPrompts)
    /\ csv_data = NoCsv
    /\ json_data = <<>>

\* csv_data, json_data = create_download_data(broll_prompts)
Export ==
    /\ exPc = "call"
    /\ csv_data' = CreateDownloadData(exPrompts)[1]
    /\ json_data' = CreateDownloadData(exPrompts)[2]
    /\ exPc' = "returned"
    /\ UNCHANGED exPrompts
    /\ OnlyExport

-----------------------------------------------------------------------------
(* Specifications *)

\* The feasibility assessor against every reply.
InitFeas == FeasInit /\ GenIdle /\ ParseIdle /\ CacheIdle /\ InputIdle /\ ConcIdle /\ PromptIdle /\ ExportIdle
NextFeas == Assess
SpecFeas == InitFeas /\ [][NextFeas]_vars

\* generate_prompts over beat sequences and feasibility replies.
InitGen == FeasIdle /\ GenInit /\ ParseIdle /\ CacheIdle /\ InputIdle /\ ConcIdle /\ PromptIdle /\ ExportIdle
NextGen == GenCall \/ GenSkipInvalid \/ GenProcess \/ GenReturn
SpecGen == InitGen /\ [][NextGen]_vars

\* The body of parse_script against every reply.
InitParse == FeasIdle /\ GenIdle /\ ParseInit /\ CacheIdle /\ InputIdle /\ ConcIdle /\ PromptIdle /\ ExportIdle
NextParse == ParseScript
SpecParse == InitParse /\ [][NextParse]_vars

\* parse_script behind its cache, called one call at a time.
InitCache == FeasIdle /\ GenIdle /\ ParseIdle /\ CacheInit /\ InputIdle /\ ConcIdle /\ PromptIdle /\ ExportIdle
NextCache == Tick \/ \E key \in CacheKeys : CallCached(key) \/ CallFresh(key)
SpecCache == InitCache /\ [][NextCache]_vars

\* parse_script behind its cache, called by concurrent sessions.
InitConc == FeasIdle /\ GenIdle /\ ParseIdle /\ CacheIdle /\ InputIdle /\ ConcInit /\ PromptIdle /\ ExportIdle
NextConc ==
    \/ ConcTick
    \/ \E t \in Threads :
        \/ \E key \in CacheKeys : TCall(t, key)
        \/ TAcquire(t)
        \/ TRecheck(t)
        \/ TCompute(t)
        \/ TStore(t)
SpecConc == InitConc /\ [][NextConc]_vars

\* The prompt builder over tones and formats.
InitPrompt ==
    FeasIdle /\ GenIdle /\ ParseIdle /\ CacheIdle /\ InputIdle /\ ConcIdle /\ PromptInit /\ ExportIdle
NextPrompt == BuildSystemPrompt
SpecPrompt == InitPrompt /\ [][NextPrompt]_vars

\* The export over sequences of prompts.
InitExport ==
    FeasIdle /\ GenIdle /\ ParseIdle /\ CacheIdle /\ InputIdle /\ ConcIdle /\ PromptIdle
        /\ ExportInit
NextExport == Export
SpecExport == InitExport /\ [][NextExport]_vars

\* Construction of the input model, by the form and directly.
InitInput == FeasIdle /\ GenIdle /\ ParseIdle /\ CacheIdle /\ InputInit /\ ConcIdle /\ PromptIdle /\ ExportIdle
NextInput == Construct \/ Generate
SpecInput == InitInput /\ [][NextInput]_vars

Init == InitFeas
Next == NextFeas
Spec == Init /\ [][Next]_vars

-----------------------------------------------------------------------------
(* Properties *)

\* C1: whatever the generative service does, _assess_generation_feasibility
\* raises nothing and returns a pair whose first component is a boolean and
\* whose second is a number in [0,1].
C1_AssessReturnsBoolAndUnitInterval ==
    feasPc = "returned" =>
        /\ ~feasOut.raised
        /\ feasOut.feasible.t = "bool"
        /\ feasOut.confidence.t \in {"num", "bool"}
        /\ AsFloat(feasOut.confidence) >= 0
        /\ AsFloat(feasOut.confidence) <= 100

\* The feasibility request failed: the call raised or timed out, or the reply
\* is not a JSON object carrying both the feasible and the confidence field.
FeasRequestFailed(r) ==
    \/ r.kind \in {"raise", "timeout"}
    \/ JsonLoads(r).exc # ""
    \/ JsonLoads(r).val.t # "obj"
    \/ r.feasible.t = "absent"
    \/ r.confidence.t = "absent"

\* C2: whenever the feasibility request fails in any way, a reply lacking the
\* feasible or confidence field included, the assessor returns exactly
\* (feasible = true, confidence = 0.7).
C2_FailureReturnsFailOpenDefault ==
    (feasPc = "returned" /\ FeasRequestFailed(feasReply)) =>
        (feasOut.feasible = JTrue /\ feasOut.confidence = JNum(70))

\* C3: with a duration in 1..30, a structurally valid beat yields a prompt if
\* and only if its assessment returned feasible = true and a confidence
\* strictly greater than 0.4.
C3_PromptIffFeasibleAndAboveThreshold ==
    (genPc # "call" /\ duration.v >= 1 /\ duration.v <= 30) =>
        \A k \in 1..Len(genTrace) :
            genTrace[k].valid =>
                (genTrace[k].emitted <=>
                    /\ genTrace[k].feasible = JTrue
                    /\ genTrace[k].confidence.t \in {"num", "bool"}
                    /\ AsFloat(genTrace[k].confidence) > 40)

\* C4: the output of generate_prompts is derived from a subsequence of the
\* input: it is no longer than the input, no beat yields more than one
\* prompt, and the prompts keep the relative order of their source beats.
C4_OutputIsOrderedSubsequence ==
    /\ Len(prompts) <= genIdx
    /\ genIdx <= Len(beats_data)
    /\ \E f \in [1..Len(prompts) -> 1..genIdx] :
        /\ \A k \in 1..Len(prompts) : \A m \in 1..Len(prompts) : k < m => f[k] < f[m]
        /\ \A k \in 1..Len(prompts) :
            /\ SceneBeatValid(beats_data[f[k]])
            /\ prompts[k].insert_after = beats_data[f[k]].script_excerpt.s
            /\ prompts[k].prompt = FormattedPrompt(SceneBeat(beats_data[f[k]]))

\* C4 witness: a finished call in which two beats with different excerpts
\* both produced a prompt.
C4_Witness ==
    /\ genPc = "done"
    /\ Len(prompts) >= 2
    /\ prompts[1].insert_after # prompts[2].insert_after

\* C5: every beat of a sequence parse_script returns has a non-empty
\* script_excerpt, a scene_description of at least the minimum length and a
\* timestamp containing ':'.
C5_ReturnedBeatsSatisfyContract ==
    (parsePc = "returned" /\ ~parseOut.isNone) =>
        \A k \in 1..Len(parseOut.beats) :
            /\ parseOut.beats[k].script_excerpt # <<>>
            /\ parseOut.beats[k].scene_description # <<>>
            /\ Len(parseOut.beats[k].scene_description) >= 10
            /\ Contains(parseOut.beats[k].timestamp, ":")

\* The service call itself errored or timed out.
ServiceFailed(r) == r.kind \in {"raise", "timeout"}

\* The reply body is a JSON array.
IsArrayReply(r) == r.kind = "json" /\ r.val.t = "arr"

\* C6: a reply body that is not a JSON array gives None with the ParseFailure
\* message, a failed service call gives None with the ServiceUnavailable
\* message and the underlying error, and neither message is shown for the
\* other cause.
C6_FailuresClassifiedByCause ==
    parsePc = "returned" =>
        /\ ServiceFailed(parseReply) =>
            (parseOut.isNone /\ parseOut.msg = MsgServiceUnavailable /\ parseOut.detail # "")
        /\ (~ServiceFailed(parseReply) /\ ~IsArrayReply(parseReply)) =>
            (parseOut.isNone /\ parseOut.msg = MsgParseFailure)
        /\ parseOut.msg = MsgServiceUnavailable => ServiceFailed(parseReply)
        /\ parseOut.msg = MsgParseFailure => ~ServiceFailed(parseReply)
        /\ parseOut.isNone => parseOut.beats = <<>>

\* The fresh calls for the key of call j that came before it.
PriorFresh(j) ==
    {i \in 1..(j - 1) : callLog[i].key = callLog[j].key /\ callLog[i].fresh}

MaxOf(S) == CHOOSE x \in S : \A y \in S : y <= x

\* C7: a call made within the time-to-live of the last fresh call with the
\* same (script, tone, format) returns that call's result without invoking
\* the service; a call made after the time-to-live has expired, or with no
\* earlier call, invokes it; the service is invoked once per fresh call.
C7_IdempotentWithinWindow ==
    /\ \A j \in 1..Len(callLog) :
        IF PriorFresh(j) = {} THEN callLog[j].fresh
        ELSE LET i == MaxOf(PriorFresh(j))
             IN IF callLog[j].time - callLog[i].time < CACHE_TTL
                THEN ~callLog[j].fresh /\ callLog[j].out = callLog[i].out
                ELSE callLog[j].fresh
    /\ \A key \in CacheKeys :
        invocations[key] =
            Cardinality({j \in 1..Len(callLog) : callLog[j].key = key /\ callLog[j].fresh})

\* C7 witness: three calls with one key: a fresh one, one answered from the
\* cache within the window, and a fresh one after the window.
C7_Witness ==
    \E i, j, k \in 1..Len(callLog) :
        /\ i < j /\ j < k
        /\ callLog[i].key = callLog[j].key /\ callLog[j].key = callLog[k].key
        /\ callLog[i].fresh /\ ~callLog[j].fresh /\ callLog[k].fresh
        /\ callLog[j].out = callLog[i].out
        /\ callLog[k].time - callLog[i].time >= CACHE_TTL

\* C8: a constructed AdScriptInput holds a script that is not empty or
\* whitespace-only and whose stored length is within [10, 5000]; an empty,
\* whitespace-only or out-of-bounds script is rejected, and after a rejection
\* neither parse_script nor generate_prompts is invoked.
C8_ConstructedScriptWithinBounds ==
    /\ ad_input.ok =>
        /\ ad_input.script # <<>>
        /\ ~AllSpace(ad_input.script)
        /\ Len(ad_input.script) >= MIN_SCRIPT_LENGTH
        /\ Len(ad_input.script) <= MAX_SCRIPT_LENGTH
    /\ (script_input = <<>> \/ AllSpace(script_input)
            \/ Len(script_input) < MIN_SCRIPT_LENGTH
            \/ Len(script_input) > MAX_SCRIPT_LENGTH) => ~ad_input.ok
    /\ inPc \in {"invalid", "rejected"} => (~parseInvoked /\ ~genInvoked)

\* C9: every BrollPrompt generate_prompts returns has a confidence_score in
\* (0.4, 1.0] and a duration in 1..30.
C9_PromptsWithinBounds ==
    \A k \in 1..Len(prompts) :
        /\ prompts[k].confidence_score > 40
        /\ prompts[k].confidence_score <= 100
        /\ prompts[k].duration >= 1
        /\ prompts[k].duration <= 30

\* C9 witness: a finished call that returned a prompt and dropped a candidate
\* that passed the gate with a confidence above 1.0.
C9_Witness ==
    /\ genPc = "done"
    /\ Len(prompts) >= 1
    /\ \E k \in 1..Len(genTrace) :
        /\ genTrace[k].valid
        /\ genTrace[k].feasible = JTrue
        /\ genTrace[k].confidence = JNum(150)
        /\ ~genTrace[k].emitted

\* The latest call before call j with the same key.
PriorCalls(j) == {i \in 1..(j - 1) : callLog[i].key = callLog[j].key}

\* C10: after a call ended in None, the next call with the same (script,
\* tone, format) issues a new request; a failure is never served from the
\* cache.
C10_FailureNeverServedFromCache ==
    \A j \in 1..Len(callLog) :
        /\ callLog[j].out.isNone => callLog[j].fresh
        /\ (PriorCalls(j) # {} /\ callLog[MaxOf(PriorCalls(j))].out.isNone) => callLog[j].fresh

\* The SceneBeat contract of models.py: a dict with four text fields, a
\* timestamp containing ':' and a description of at least ten characters.
MeetsSceneBeatContract(e) ==
    /\ e.isdict
    /\ \A v \in {e.timestamp, e.scene_description, e.emotion, e.script_excerpt} : v.t = "str"
    /\ Contains(e.timestamp.s, ":")
    /\ Len(e.scene_description.s) >= 10

\* The positions of the elements of es that meet the contract.
ValidPositions(es) == {i \in 1..Len(es) : MeetsSceneBeatContract(es[i])}

ValidBeatPositions(n) == {i \in 1..n : MeetsSceneBeatContract(beats_data[i])}

\* C13: within one generate_prompts call the assessor is called exactly once
\* for each beat that passes re-validation and never for one that fails it,
\* in input order, and no call is repeated.
C13_OneAssessorCallPerValidBeatInOrder ==
    /\ Len(feasCalls) = Cardinality(ValidBeatPositions(genIdx))
    /\ \A k \in 1..Len(feasCalls) : feasCalls[k] \in ValidBeatPositions(genIdx)
    /\ \A k \in 1..Len(feasCalls) : \A m \in 1..Len(feasCalls) :
        k < m => feasCalls[k] < feasCalls[m]
    /\ \A k \in 1..Len(genTrace) : genTrace[k].called <=> (k \in ValidBeatPositions(genIdx))

\* C13 witness: a finished call over an invalid beat followed by a valid
\* one, with the single assessor call made for the second.
C13_Witness ==
    /\ genPc = "done"
    /\ Len(beats_data) >= 2
    /\ ~MeetsSceneBeatContract(beats_data[1])
    /\ MeetsSceneBeatContract(beats_data[2])
    /\ feasCalls # <<>>
    /\ feasCalls[1] = 2

\* The emotion-normalization table as pairs (emotion, natural emotion).
EmotionPairs ==
    {<<T_problem_hook, T_frustrated>>, <<T_solution, T_satisfied>>,
     <<T_social_proof, T_happy>>, <<T_urgency, T_excited>>,
     <<T_transformation, T_amazed>>, <<T_curiosity, T_intrigued>>}

\* The table entry for the emotion, or the emotion itself.
ExpectedEmotion(e) ==
    IF \E p \in EmotionPairs : p[1] = e
    THEN (CHOOSE p \in EmotionPairs : p[1] = e)[2]
    ELSE e

\* The position in the input of the beat behind the k-th prompt.
SourceOfPrompt(k) ==
    CHOOSE i \in 1..Len(genTrace) :
        /\ genTrace[i].emitted
        /\ Cardinality({m \in 1..i : genTrace[m].emitted}) = k

\* C14: the prompt built for an accepted beat has prompt =
\* "{scene_description}, {natural_emotion}, cinematic", search_instruction =
\* "Search for: {scene_description} showing {natural_emotion} emotion",
\* insert_after = script_excerpt, the assessed confidence, and the caller's
\* duration and aspect_ratio (3 and "9:16" when omitted).
C14_PromptFieldsFromBeat ==
    genPc # "call" =>
        /\ Len(prompts) = Cardinality({m \in 1..Len(genTrace) : genTrace[m].emitted})
        /\ \A k \in 1..Len(prompts) :
            LET i == SourceOfPrompt(k)
                desc == beats_data[i].scene_description.s
                ne == ExpectedEmotion(beats_data[i].emotion.s)
            IN /\ prompts[k].prompt =
                    desc \o <<",", " ">> \o ne
                        \o <<",", " ", "c", "i", "n", "e", "m", "a", "t", "i", "c">>
               /\ prompts[k].search_instruction =
                    <<"S", "e", "a", "r", "c", "h", " ", "f", "o", "r", ":", " ">> \o desc
                        \o <<" ", "s", "h", "o", "w", "i", "n", "g", " ">> \o ne
                        \o <<" ", "e", "m", "o", "t", "i", "o", "n">>
               /\ prompts[k].insert_after = beats_data[i].script_excerpt.s
               /\ prompts[k].confidence_score = AsFloat(genTrace[i].confidence)
               /\ prompts[k].duration = (IF genArgs[1].some THEN genArgs[1].v ELSE 3)
               /\ prompts[k].aspect_ratio = (IF genArgs[2].some THEN genArgs[2].v ELSE "9:16")

\* C14 witness: a call without duration and aspect_ratio that returned a
\* prompt for a beat whose emotion is in the table and one for a beat whose
\* emotion is not.
C14_Witness ==
    /\ genPc = "done"
    /\ ~genArgs[1].some
    /\ ~genArgs[2].some
    /\ Len(prompts) >= 2
    /\ prompts[1].insert_after = Exc_Tired
    /\ prompts[2].insert_after = Exc_Try
    /\ prompts[1].duration = 3

BlocksLabelled(text, label) == {i \in 1..Len(text) : text[i].label = label}

\* C16: _get_system_prompt never fails; for a tone (format) in its guidance
\* table the text carries that table's guidance line, for any other tone
\* (format) it carries no tone (format) guidance, and it always carries the
\* task framing, the JSON contract with the four SceneBeat fields and the
\* example descriptions.
C16_SystemPromptContents ==
    spPc = "returned" =>
        /\ \A p \in DrToneGuidance :
            spTone = p[1] =>
                \E i \in 1..Len(spText) : spText[i] = Block("TONE STRATEGY:", <<p[2]>>)
        /\ (\A p \in DrToneGuidance : spTone # p[1]) =>
                BlocksLabelled(spText, "TONE STRATEGY:") = {}
        /\ \A p \in DrFormatGuidance :
            spFormat = p[1] =>
                \E i \in 1..Len(spText) : spText[i] = Block("FORMAT STRATEGY:", <<p[2]>>)
        /\ (\A p \in DrFormatGuidance : spFormat # p[1]) =>
                BlocksLabelled(spText, "FORMAT STRATEGY:") = {}
        /\ spText[1].label = "You are a B-roll specialist for high-converting social media ads."
        /\ \E i \in 1..Len(spText) :
            /\ spText[i].label = "Respond only in raw JSON format:"
            /\ \A field \in {"timestamp", "scene_description", "emotion", "script_excerpt"} :
                \E k \in 1..Len(spText[i].items) : spText[i].items[k] = field
        /\ spText[Len(spText)].label = "EXAMPLES OF GOOD SCENE DESCRIPTIONS:"
        /\ Len(spText[Len(spText)].items) = 7

\* C16 witness: a prompt built for a tone of the table and a format outside
\* it.
C16_Witness ==
    /\ spPc = "returned"
    /\ spTone = "problem"
    /\ spFormat = "ugc_style"
    /\ Len(spText) = 7

\* C17: for every tone and format the form offers and every script
\* validate_input accepts, AdScriptInput is constructed and parse_script is
\* invoked with that script, tone and format.
C17_SelectableInputReachesParseScript ==
    (caller = "main" /\ inPc # "start" /\ ValidateInput(script_input)[1]) =>
        /\ ad_input.ok
        /\ ad_input.tone = tone
        /\ ad_input.format = format_type
        /\ parseInvoked

\* C15: a generate action on an input validate_input accepts ends in one of
\* four outcomes (decomposition failure, zero beats, zero prompts, success)
\* with that outcome's message only; generate_prompts is not called after a
\* failure or zero beats, and the three empty outcomes have three distinct
\* messages.
C15_GenerateEndsInOneOfFourOutcomes ==
    (caller = "main" /\ inPc # "start" /\ ValidateInput(script_input)[1]) =>
        /\ inPc \in {"failed", "no_beats", "no_prompts", "results"}
        /\ inPc = "failed" =>
            (uiMessage \in {MsgParseFailure, MsgServiceUnavailable} /\ ~genInvoked)
        /\ inPc = "no_beats" => (uiMessage = MsgNoScenes /\ ~genInvoked)
        /\ inPc = "no_prompts" => (uiMessage = MsgNoPrompts /\ genInvoked)
        /\ inPc = "results" => (uiMessage = "" /\ genInvoked)

\* The int a text of digits stands for.
RECURSIVE IntOfText(_)
IntOfText(s) ==
    IF s = <<>> THEN 0
    ELSE IntOfText(SubSeq(s, 1, Len(s) - 1)) * 10
            + (CHOOSE d \in 0..9 : DigitChars[d + 1] = s[Len(s)])

\* The hundredths a text "w.f" or "w.ff" stands for.
HundredthsOfText(s) ==
    LET k == CHOOSE i \in 1..Len(s) : s[i] = "."
        frac == SubSeq(s, k + 1, Len(s))
    IN IntOfText(SubSeq(s, 1, k - 1)) * 100
          + (IF Len(frac) = 1 THEN IntOfText(frac) * 10 ELSE IntOfText(frac))

RECURSIVE UndoubleQuotes(_)
UndoubleQuotes(s) ==
    IF s = <<>> THEN <<>>
    ELSE IF Len(s) >= 2 /\ s[1] = "\"" /\ s[2] = "\"" THEN <<"\"">> \o UndoubleQuotes(SubSeq(s, 3, Len(s)))
    ELSE <<Head(s)>> \o UndoubleQuotes(Tail(s))

\* The text a CSV reader gets from a cell.
CsvCellText(c) ==
    IF c # <<>> /\ Head(c) = "\"" THEN UndoubleQuotes(SubSeq(c, 2, Len(c) - 1)) ELSE c

RECURSIVE JsonUnescape(_)
JsonUnescape(s) ==
    IF s = <<>> THEN <<>>
    ELSE IF Len(s) >= 2 /\ s[1] = "\\"
         THEN <<IF s[2] = "n" THEN "\n" ELSE s[2]>> \o JsonUnescape(SubSeq(s, 3, Len(s)))
    ELSE <<Head(s)>> \o JsonUnescape(Tail(s))

\* The text a JSON reader gets from a value: a string's content, or the
\* number as written.
JsonValueText(v) ==
    IF v # <<>> /\ Head(v) = "\"" THEN JsonUnescape(SubSeq(v, 2, Len(v) - 1)) ELSE v

\* C18: create_download_data gives one record per prompt in input order,
\* numbered 1..n, each with the prompt's insert_after, prompt, duration,
\* aspect_ratio, search_instruction and confidence_score unchanged, and the
\* CSV rows and the JSON objects hold the same records in the same order.
C18_OneExportRecordPerPromptInOrder ==
    exPc = "returned" =>
        /\ Len(json_data) = Len(exPrompts)
        /\ Len(csv_data.rows) = Len(exPrompts)
        /\ \A i \in 1..Len(exPrompts) :
            LET o == json_data[i]
                row == csv_data.rows[i]
                p == exPrompts[i]
            IN /\ o[1].key = "sequence" /\ IntOfText(o[1].value) = i
               /\ o[2].key = "insert_after" /\ JsonValueText(o[2].value) = p.insert_after
               /\ o[3].key = "prompt" /\ JsonValueText(o[3].value) = p.prompt
               /\ o[4].key = "duration" /\ IntOfText(o[4].value) = p.duration
               /\ o[5].key = "aspect_ratio"
               /\ JsonValueText(o[5].value) = AspectChars(p.aspect_ratio)
               /\ o[6].key = "search_instruction"
               /\ JsonValueText(o[6].value) = p.search_instruction
               /\ o[7].key = "confidence_score"
               /\ HundredthsOfText(o[7].value) = p.confidence_score
               /\ Len(o) = 7 /\ Len(row) = 7 /\ Len(csv_data.header) = 7
               /\ \A k \in 1..7 :
                    /\ csv_data.header[k] = o[k].key
                    /\ CsvCellText(row[k]) = JsonValueText(o[k].value)

\* C18 witness: two different prompts were exported, the first with quotes
\* and a comma in its excerpt.
C18_Witness ==
    /\ exPc = "returned"
    /\ Len(exPrompts) = 2
    /\ exPrompts[1] # exPrompts[2]
    /\ exPrompts[1].insert_after = Exc_Quoted
    /\ Len(json_data) = 2

====
